---- MODULE Spec2Model ----
(***************************************************************************)
(* IDBFactoryBackendProxy: the worker-thread permission rendezvous.        *)
(*                                                                         *)
(* A worker thread (the requester) asks the main thread (the authority)    *)
(* whether IndexedDB access to a named database is allowed, and parks in   *)
(* its run loop in a private mode until the answer is posted back or the   *)
(* run loop is terminated.  The model has two threads, the worker and the  *)
(* main thread, the worker run loop's message queue, the main thread's     *)
(* task queue, and one AllowIndexedDBMainThreadBridge per call.            *)
(***************************************************************************)
EXTENDS Integers, Sequences, FiniteSets, TLC

\* ------------------------------------------------------------------ bounds
MaxCalls == 2          \* calls of allowIDBFromWorkerThread in one behaviour
MaxAppTasks == 1       \* unrelated default-mode tasks posted to the worker
MaxLiveCalls == 1      \* calls in one behaviour of the liveness specification
MaxFrameCalls == 2     \* calls on the main-thread (frame) path

Names == {"inbox", "outbox"}
Calls == 1..MaxCalls

\* --------------------------------------------------------------- constants
allowIndexedDBMode == "allowIndexedDBMode"
defaultMode == ""
NullPtr == "null"
WebWorkerBasePtr == "webWorkerBase"
MessageQueueTerminated == "MessageQueueTerminated"
MessageQueueMessageReceived == "MessageQueueMessageReceived"
NoWait == "none"

VARIABLES
    commonClient,   \* TRUE iff webWorkerBase->commonClient() is non-null
    m_uniqueId,     \* WorkerRunLoop's id counter
    killed,         \* the worker run loop's message queue was killed
    workerQueue,    \* tasks posted to the worker run loop, each with a mode
    mainQueue,      \* tasks dispatched to the main thread
    bridge,         \* the fields of each AllowIndexedDBMainThreadBridge
    mutex,          \* holder of each bridge's m_mutex
    nbridges,       \* bridges constructed so far
    w,              \* worker thread: position and locals
    m,              \* main thread: position and locals
    appPosted,      \* unrelated tasks posted to the worker so far
    crashed,        \* a null pointer was dereferenced
    deletion,       \* WebWorkerBase and WebCommonWorkerClient: "none",
                    \* deletion "scheduled" on the main thread, or "done"
    frameLog,       \* the calls made on the main-thread (frame) path
    hist            \* per call: what happened (observation only)

vars == <<commonClient, m_uniqueId, killed, workerQueue, mainQueue, bridge,
          mutex, nbridges, w, m, appPosted, crashed, deletion, frameLog,
          hist>>

\* ------------------------------------------------------- pure code pieces

\* WorkerRunLoop::createUniqueId: return ++m_uniqueId.
createUniqueId(id) == id + 1

\* waitMode with the id left out of the mode.
waitMode_noId(id) == allowIndexedDBMode

\* mode = allowIndexedDBMode; mode.append(String::number(id)).
waitMode(id) == allowIndexedDBMode \o ToString(id)

\* The bridge as the constructor's initialiser list leaves it.
newBridge(webWorkerBase) ==
    [m_result |-> FALSE, m_webWorkerBase |-> webWorkerBase, m_refCount |-> 1]

\* A bridge that has not been constructed yet.
noBridge ==
    [m_result |-> FALSE, m_webWorkerBase |-> NullPtr, m_refCount |-> 0]

\* refs with the tasks holding plain pointers to the bridge.
refs_none(br, n) == br

\* createCallbackTask(..., this, ...): each task made for the bridge holds
\* one reference to it.
refs(br, n) == [br EXCEPT !.m_refCount = @ + n]

\* A RefPtr or a task of the bridge goes away: ThreadSafeRefCounted::deref;
\* the bridge is destroyed when the count reaches zero.
deref(br) == [br EXCEPT !.m_refCount = @ - 1]

\* constructorTasks dispatching nothing when there is no client.
constructorTasks_skipAbsent(b, client, name, mode) ==
    IF client
    THEN << [kind |-> "allowIndexedDBTask", bridge |-> b,
             commonClient |-> client, name |-> name, mode |-> mode] >>
    ELSE <<>>

\* constructorTasks dispatching the evaluation twice.
constructorTasks_twice(b, client, name, mode) ==
    << [kind |-> "allowIndexedDBTask", bridge |-> b, commonClient |-> client,
        name |-> name, mode |-> mode],
       [kind |-> "allowIndexedDBTask", bridge |-> b, commonClient |-> client,
        name |-> name, mode |-> mode] >>

\* The constructor's dispatchTaskToMainThread(createCallbackTask(...)).
constructorTasks(b, client, name, mode) ==
    << [kind |-> "allowIndexedDBTask", bridge |-> b, commonClient |-> client,
        name |-> name, mode |-> mode] >>

\* cancel flipping the back-reference instead of clearing it.
cancel_toggles(br) ==
    [br EXCEPT !.m_webWorkerBase =
                   IF @ = NullPtr THEN WebWorkerBasePtr ELSE NullPtr]

\* cancel(): m_webWorkerBase = 0.
cancel(br) == [br EXCEPT !.m_webWorkerBase = NullPtr]

\* result(): return m_result.
result(br) == br.m_result

\* didComplete losing the outcome.
didComplete_dropped(br, res) == br

\* didComplete(): bridge->m_result = result.
didComplete(br, res) == [br EXCEPT !.m_result = res]

\* clientAbsent with the null check left out.
clientAbsent_unchecked(client) == FALSE

\* allowIndexedDBTask: if (!commonClient) -- the branch that skips the
\* predicate.
clientAbsent(client) == ~client

\* invokesPredicate skipping the evaluation of a cancelled bridge.
invokesPredicate_unlessCancelled(task, br) ==
    ~clientAbsent(task.commonClient) /\ br.m_webWorkerBase # NullPtr

\* allowIndexedDBTask: commonClient->allowIndexedDB(name) is called whenever
\* there is a client, whatever the state of the bridge.
invokesPredicate(task, br) == ~clientAbsent(task.commonClient)

\* allowIndexedDBTask: the value handed to signalCompleted when the client
\* is absent.
absentOutcome == FALSE

\* predicateArgument handing over the mode instead of the name.
predicateArgument_mode(task) == task.mode

\* allowIndexedDBTask: the name handed to commonClient->allowIndexedDB.
predicateArgument(task) == task.name

\* signalCompletedGuard with the check of the back-reference left out.
signalCompletedGuard_unchecked(br) == TRUE

\* signalCompleted: if (m_webWorkerBase).
signalCompletedGuard(br) == br.m_webWorkerBase # NullPtr

\* completionTarget handing the completion task to the main thread.
completionTarget_main == "main"

\* signalCompleted: postTaskForModeToWorkerContext -- the completion task
\* goes to the worker's run loop.
completionTarget == "worker"

\* completionTasks posting in the default mode.
completionTasks_defaultMode(b, res, mode) ==
    << [kind |-> "didComplete", bridge |-> b, result |-> res,
        mode |-> defaultMode] >>

\* completionTasks posting the completion twice.
completionTasks_twice(b, res, mode) ==
    << [kind |-> "didComplete", bridge |-> b, result |-> res, mode |-> mode],
       [kind |-> "didComplete", bridge |-> b, result |-> res, mode |-> mode] >>

\* signalCompleted: the tasks posted by postTaskForModeToWorkerContext.
completionTasks(b, res, mode) ==
    << [kind |-> "didComplete", bridge |-> b, result |-> res, mode |-> mode] >>

\* runInModeArgument running the loop in the default mode.
runInModeArgument_default(mode) == defaultMode

\* runLoop.runInMode(workerContext, mode): the mode the loop is run in.
runInModeArgument(mode) == mode

\* openFromWorker going on to the backend after it has reported the denial.
openFromWorker_noReturn(allowed) ==
    IF ~allowed
    THEN [onError |-> 1, open |-> 1]
    ELSE [onError |-> 0, open |-> 1]

\* openFromWorker after allowIDBFromWorkerThread has returned: the calls of
\* callbacks->onError and of m_webIDBFactory->open it makes.
openFromWorker(allowed) ==
    IF ~allowed
    THEN [onError |-> 1, open |-> 0]
    ELSE [onError |-> 0, open |-> 1]

\* waitTerminated never taking the termination branch.
waitTerminated_ignored(waitResult) == FALSE

\* allowIDBFromWorkerThread: runInMode(...) == MessageQueueTerminated.
waitTerminated(waitResult) == waitResult = MessageQueueTerminated

\* MutexLocker taking nothing on the worker thread.
MutexLocker_workerSkips(mtx, b, thread) ==
    IF thread = "worker" THEN mtx ELSE [mtx EXCEPT ![b] = thread]

\* MutexLocker taking nothing on the main thread.
MutexLocker_mainSkips(mtx, b, thread) ==
    IF thread = "main" THEN mtx ELSE [mtx EXCEPT ![b] = thread]

\* MutexLocker locker(m_mutex) in cancel() and signalCompleted(): the thread
\* holds the bridge's mutex until the method returns.
MutexLocker(mtx, b, thread) == [mtx EXCEPT ![b] = thread]

\* afterStop with the worker thread still running tasks once it has
\* scheduled the deletion.
afterStop_running == "idle"

\* W runLoop stops and schedules object deletion on main thread: the worker
\* thread runs nothing after that.
afterStop == "stopped"

\* ------------------------------------------------- the worker's run loop

\* ModePredicate: the default mode accepts every task, another mode only
\* the tasks posted for it.
ModePredicate(mode, task) == mode = defaultMode \/ task.mode = mode

RECURSIVE findIf(_, _, _)
\* MessageQueue::findIf: index of the first task the predicate accepts, 0
\* if there is none.
findIf(q, mode, i) ==
    IF i > Len(q) THEN 0
    ELSE IF ModePredicate(mode, q[i]) THEN i
    ELSE findIf(q, mode, i + 1)

\* The queue without its i-th task, order kept.
removeAt(q, i) == SubSeq(q, 1, i - 1) \o SubSeq(q, i + 1, Len(q))

\* --------------------------------------------------------------- history

\* One access of a bridge field after construction: which field, by which
\* method, on which thread, and whether that thread held the bridge's mutex.
Access(field, op, thread, b) ==
    [field |-> field, op |-> op, thread |-> thread,
     locked |-> (mutex[b] = thread)]

\* A use of WebWorkerBase or WebCommonWorkerClient: a use after free when
\* the two objects have been deleted.
UseOf(op) == IF deletion = "done" THEN {op} ELSE {}

\* One posting of a task for a bridge: to which thread, and whether the
\* bridge's mutex was held by anybody at that moment.
Posting(to, b) == [to |-> to, locked |-> (mutex[b] # "free")]

NoHist ==
    [name |-> "", mode |-> "", client |-> FALSE, dispatched |-> 0,
     taskRuns |-> 0, predCalls |-> <<>>, signalArgs |-> <<>>, posted |-> 0,
     writes |-> 0,
     writers |-> {}, ranInWait |-> FALSE, foreignRun |-> FALSE,
     resultRead |-> FALSE, readUnwritten |-> FALSE,
     cancelCalled |-> FALSE, cancelReturned |-> FALSE, lateSignal |-> FALSE,
     allowedBeforeTeardown |-> FALSE, waited |-> FALSE,
     accesses |-> {}, posts |-> {}, useAfterFree |-> {},
     askedWhileScheduled |-> FALSE, askedAfterCancel |-> FALSE,
     overtook |-> FALSE, onError |-> 0, open |-> 0,
     waitResult |-> NoWait, returned |-> FALSE, ret |-> FALSE]

WorkerIdle == [pc |-> "idle", bridge |-> 0, mode |-> "", waitResult |-> NoWait]
MainIdle == [pc |-> "idle", task |-> <<>>, allowed |-> FALSE]

Init ==
    /\ commonClient \in BOOLEAN
    /\ m_uniqueId = 0
    /\ killed = FALSE
    /\ workerQueue = <<>>
    /\ mainQueue = <<>>
    /\ bridge = [b \in Calls |-> noBridge]
    /\ mutex = [b \in Calls |-> "free"]
    /\ nbridges = 0
    /\ w = WorkerIdle
    /\ m = MainIdle
    /\ appPosted = 0
    /\ crashed = FALSE
    /\ deletion = "none"
    /\ frameLog = <<>>
    /\ hist = [b \in Calls |-> NoHist]

\* ------------------------------------------------------ the worker thread

\* allowIDBFromWorkerThread up to the call of runInMode: the mode is made
\* from a fresh id, the bridge is constructed and its constructor dispatches
\* allowIndexedDBTask to the main thread.
StartCheck(name) ==
    /\ ~crashed
    /\ w.pc = "idle"
    /\ nbridges < MaxCalls
    /\ LET b == nbridges + 1
           id == createUniqueId(m_uniqueId)
           mode == waitMode(id)
           tasks == constructorTasks(b, commonClient, name, mode)
       IN /\ m_uniqueId' = id
          /\ nbridges' = b
          /\ bridge' = [bridge EXCEPT
                          ![b] = refs(newBridge(WebWorkerBasePtr), Len(tasks))]
          /\ mainQueue' = mainQueue \o tasks
          /\ w' = [pc |-> "runInMode", bridge |-> b,
                   mode |-> runInModeArgument(mode), waitResult |-> NoWait]
          /\ hist' = [hist EXCEPT ![b].name = name, ![b].mode = mode,
                                  ![b].client = commonClient,
                                  ![b].dispatched = Len(tasks),
                                  ![b].useAfterFree =
                                      @ \cup UseOf("commonClient()"),
                                  ![b].posts =
                                      IF tasks = <<>> THEN @
                                      ELSE @ \cup {Posting("main", b)}]
    /\ UNCHANGED <<deletion, frameLog,
                   commonClient, killed, workerQueue, mutex, m, appPosted,
                   crashed>>

\* A task of the worker's queue is performed: only didComplete changes the
\* state modelled here.
performTask(task) ==
    IF task.kind = "didComplete"
    THEN [bridge EXCEPT ![task.bridge] = deref(didComplete(@, task.result))]
    ELSE bridge

\* What the history records when a thread performs a task of the worker's
\* kind while the call of bridge `waiting` is parked in runInMode (0: not
\* inside a wait).
histAfterTask(task, waiting, thread) ==
    LET h1 == IF task.kind = "didComplete"
              THEN [hist EXCEPT
                      ![task.bridge].writes = @ + 1,
                      ![task.bridge].writers = @ \cup {task.kind},
                      ![task.bridge].accesses =
                          @ \cup {Access("m_result", "didComplete", thread,
                                         task.bridge)},
                      ![task.bridge].ranInWait = @ \/ (waiting = task.bridge)]
              ELSE hist
        own == task.kind = "didComplete" /\ task.bridge = waiting
    IN IF waiting # 0 /\ ~own
       THEN [h1 EXCEPT ![waiting].foreignRun = TRUE]
       ELSE h1

\* runInMode(workerContext, mode) returns MessageQueueTerminated: the queue
\* was killed.
RunInModeTerminated ==
    /\ ~crashed
    /\ w.pc = "runInMode"
    /\ killed
    /\ w' = [w EXCEPT !.pc = "afterWait", !.waitResult = MessageQueueTerminated]
    /\ hist' = [hist EXCEPT ![w.bridge].waited = TRUE,
                            ![w.bridge].waitResult = MessageQueueTerminated]
    /\ UNCHANGED <<deletion, frameLog,
                   commonClient, m_uniqueId, killed, workerQueue, mainQueue,
                   bridge, mutex, nbridges, m, appPosted, crashed>>

\* runInMode(workerContext, mode) takes the first task posted for the mode,
\* performs it and returns MessageQueueMessageReceived.
RunInModeReceived ==
    /\ ~crashed
    /\ w.pc = "runInMode"
    /\ ~killed
    /\ LET i == findIf(workerQueue, w.mode, 1)
       IN /\ i # 0
          /\ workerQueue' = removeAt(workerQueue, i)
          /\ bridge' = performTask(workerQueue[i])
          /\ hist' = [histAfterTask(workerQueue[i], w.bridge, "worker") EXCEPT
                        ![w.bridge].waited = TRUE,
                        ![w.bridge].overtook = (i > 1),
                        ![w.bridge].waitResult = MessageQueueMessageReceived]
    /\ w' = [w EXCEPT !.pc = "afterWait",
                      !.waitResult = MessageQueueMessageReceived]
    /\ UNCHANGED <<deletion, frameLog,
                   commonClient, m_uniqueId, killed, mainQueue, mutex,
                   nbridges, m, appPosted, crashed>>

\* if (runInMode(...) == MessageQueueTerminated): bridge->cancel() takes the
\* bridge's mutex.
CancelLock ==
    /\ ~crashed
    /\ w.pc = "afterWait"
    /\ waitTerminated(w.waitResult)
    /\ mutex[w.bridge] = "free"
    /\ mutex' = MutexLocker(mutex, w.bridge, "worker")
    /\ w' = [w EXCEPT !.pc = "cancel"]
    /\ hist' = [hist EXCEPT ![w.bridge].cancelCalled = TRUE]
    /\ UNCHANGED <<deletion, frameLog,
                   commonClient, m_uniqueId, killed, workerQueue, mainQueue,
                   bridge, nbridges, m, appPosted, crashed>>

\* cancel() clears the back-reference and releases the mutex.
CancelClear ==
    /\ ~crashed
    /\ w.pc = "cancel"
    /\ bridge' = [bridge EXCEPT ![w.bridge] = cancel(@)]
    /\ mutex' = [mutex EXCEPT ![w.bridge] = "free"]
    /\ w' = [w EXCEPT !.pc = "returnFalse"]
    /\ hist' = [hist EXCEPT
                  ![w.bridge].cancelReturned = TRUE,
                  ![w.bridge].accesses =
                      @ \cup {Access("m_webWorkerBase", "cancel", "worker",
                                     w.bridge)}]
    /\ UNCHANGED <<deletion, frameLog,
                   commonClient, m_uniqueId, killed, workerQueue, mainQueue,
                   nbridges, m, appPosted, crashed>>

\* return false after cancel(); the RefPtr to the bridge goes away, and
\* openFromWorker acts on the answer.
ReturnFalse ==
    /\ ~crashed
    /\ w.pc = "returnFalse"
    /\ hist' = [hist EXCEPT ![w.bridge].returned = TRUE,
                            ![w.bridge].ret = FALSE,
                            ![w.bridge].onError = openFromWorker(FALSE).onError,
                            ![w.bridge].open = openFromWorker(FALSE).open]
    /\ bridge' = [bridge EXCEPT ![w.bridge] = deref(@)]
    /\ w' = WorkerIdle
    /\ UNCHANGED <<deletion, frameLog,
                   commonClient, m_uniqueId, killed, workerQueue, mainQueue,
                   mutex, nbridges, m, appPosted, crashed>>

\* return bridge->result(); the RefPtr to the bridge goes away, and
\* openFromWorker acts on the answer.
ReturnResult ==
    /\ ~crashed
    /\ w.pc = "afterWait"
    /\ ~waitTerminated(w.waitResult)
    /\ hist' = [hist EXCEPT
                  ![w.bridge].returned = TRUE,
                  ![w.bridge].ret = result(bridge[w.bridge]),
                  ![w.bridge].resultRead = TRUE,
                  ![w.bridge].accesses =
                      @ \cup {Access("m_result", "result", "worker",
                                     w.bridge)},
                  ![w.bridge].readUnwritten = (hist[w.bridge].writes = 0),
                  ![w.bridge].onError =
                      openFromWorker(result(bridge[w.bridge])).onError,
                  ![w.bridge].open =
                      openFromWorker(result(bridge[w.bridge])).open]
    /\ bridge' = [bridge EXCEPT ![w.bridge] = deref(@)]
    /\ w' = WorkerIdle
    /\ UNCHANGED <<deletion, frameLog,
                   commonClient, m_uniqueId, killed, workerQueue, mainQueue,
                   mutex, nbridges, m, appPosted, crashed>>

\* The worker's run loop in the default mode performs the next task of its
\* queue, whatever its mode.
RunDefaultMode ==
    /\ ~crashed
    /\ w.pc = "idle"
    /\ ~killed
    /\ LET i == findIf(workerQueue, defaultMode, 1)
       IN /\ i # 0
          /\ workerQueue' = removeAt(workerQueue, i)
          /\ bridge' = performTask(workerQueue[i])
          /\ hist' = histAfterTask(workerQueue[i], 0, "worker")
    /\ UNCHANGED <<deletion, frameLog,
                   commonClient, m_uniqueId, killed, mainQueue, mutex,
                   nbridges, w, m, appPosted, crashed>>

\* The killed run loop stops once the worker is back in it, and the worker
\* schedules the deletion of WebWorkerBase and WebCommonWorkerClient on the
\* main thread (the shared worker case).
WorkerStop ==
    /\ ~crashed
    /\ w.pc = "idle"
    /\ killed
    /\ deletion = "none"
    /\ deletion' = "scheduled"
    /\ w' = [WorkerIdle EXCEPT !.pc = afterStop]
    /\ mainQueue' = Append(mainQueue,
                           [kind |-> "deleteWorkerObjects", bridge |-> 0,
                            commonClient |-> FALSE, name |-> "", mode |-> ""])
    /\ UNCHANGED <<frameLog, commonClient, m_uniqueId, killed, workerQueue,
                   bridge, mutex, nbridges, m, appPosted, crashed, hist>>

\* -------------------------------------------------------- the main thread

\* The main thread takes the next task dispatched to it: an evaluation task
\* starts allowIndexedDBTask, any other callback task is performed at once.
MainTakeTask ==
    /\ ~crashed
    /\ m.pc = "idle"
    /\ mainQueue # <<>>
    /\ Head(mainQueue).kind # "deleteWorkerObjects"
    /\ mainQueue' = Tail(mainQueue)
    /\ IF Head(mainQueue).kind = "allowIndexedDBTask"
       THEN /\ m' = [pc |-> "allowIndexedDBTask", task |-> Head(mainQueue),
                     allowed |-> FALSE]
            /\ hist' = [hist EXCEPT ![Head(mainQueue).bridge].taskRuns = @ + 1]
            /\ UNCHANGED bridge
       ELSE /\ bridge' = performTask(Head(mainQueue))
            /\ hist' = histAfterTask(Head(mainQueue), 0, "main")
            /\ UNCHANGED m
    /\ UNCHANGED <<deletion, frameLog,
                   commonClient, m_uniqueId, killed, workerQueue,
                   mutex, nbridges, w, appPosted, crashed>>

\* The main thread runs the deletion the worker scheduled: WebWorkerBase and
\* WebCommonWorkerClient are deleted.
MainDelete ==
    /\ ~crashed
    /\ m.pc = "idle"
    /\ mainQueue # <<>>
    /\ Head(mainQueue).kind = "deleteWorkerObjects"
    /\ mainQueue' = Tail(mainQueue)
    /\ deletion' = "done"
    /\ UNCHANGED <<frameLog, commonClient, m_uniqueId, killed, workerQueue,
                   bridge, mutex, nbridges, w, m, appPosted, crashed, hist>>

\* allowIndexedDBTask with no client: signalCompleted(false, mode).
AllowTaskAbsent ==
    /\ ~crashed
    /\ m.pc = "allowIndexedDBTask"
    /\ ~invokesPredicate(m.task, bridge[m.task.bridge])
    /\ m' = [m EXCEPT !.pc = "signalCompleted", !.allowed = absentOutcome]
    /\ hist' = [hist EXCEPT ![m.task.bridge].signalArgs = Append(@, absentOutcome)]
    /\ UNCHANGED <<deletion, frameLog,
                   commonClient, m_uniqueId, killed, workerQueue, mainQueue,
                   bridge, mutex, nbridges, w, appPosted, crashed>>

\* allowIndexedDBTask with a client: allowed = commonClient->
\* allowIndexedDB(name), then signalCompleted(allowed, mode).  Calling
\* through a null client is a crash.
AllowTaskAsk(answer) ==
    /\ ~crashed
    /\ m.pc = "allowIndexedDBTask"
    /\ invokesPredicate(m.task, bridge[m.task.bridge])
    /\ crashed' = ~m.task.commonClient
    /\ m' = [m EXCEPT !.pc = "signalCompleted", !.allowed = answer]
    /\ hist' = [hist EXCEPT
                  ![m.task.bridge].predCalls =
                      Append(@, [name |-> predicateArgument(m.task),
                                 answer |-> answer]),
                  ![m.task.bridge].signalArgs = Append(@, answer),
                  ![m.task.bridge].useAfterFree =
                      @ \cup UseOf("allowIndexedDB"),
                  ![m.task.bridge].askedWhileScheduled =
                      @ \/ (deletion = "scheduled"),
                  ![m.task.bridge].askedAfterCancel =
                      @ \/ hist[m.task.bridge].cancelReturned,
                  ![m.task.bridge].allowedBeforeTeardown =
                      @ \/ (answer /\ ~killed)]
    /\ UNCHANGED <<deletion, frameLog,
                   commonClient, m_uniqueId, killed, workerQueue, mainQueue,
                   bridge, mutex, nbridges, w, appPosted>>

\* signalCompleted: MutexLocker locker(m_mutex).
SignalLock ==
    /\ ~crashed
    /\ m.pc = "signalCompleted"
    /\ mutex[m.task.bridge] = "free"
    /\ mutex' = MutexLocker(mutex, m.task.bridge, "main")
    /\ m' = [m EXCEPT !.pc = "signalLocked"]
    /\ hist' = [hist EXCEPT ![m.task.bridge].lateSignal =
                                hist[m.task.bridge].cancelReturned]
    /\ UNCHANGED <<deletion, frameLog,
                   commonClient, m_uniqueId, killed, workerQueue, mainQueue,
                   bridge, nbridges, w, appPosted, crashed>>

\* signalCompleted: if (m_webWorkerBase) m_webWorkerBase->
\* postTaskForModeToWorkerContext(didComplete task, mode).  Posting through
\* a null m_webWorkerBase is a crash.
SignalPost ==
    /\ ~crashed
    /\ m.pc = "signalLocked"
    /\ LET b == m.task.bridge
           tasks == completionTasks(b, m.allowed, m.task.mode)
           read == Access("m_webWorkerBase", "signalCompleted", "main", b)
       IN IF signalCompletedGuard(bridge[b])
          THEN /\ IF completionTarget = "worker"
                  THEN /\ workerQueue' = workerQueue \o tasks
                       /\ UNCHANGED mainQueue
                  ELSE /\ mainQueue' = mainQueue \o tasks
                       /\ UNCHANGED workerQueue
               /\ bridge' = [bridge EXCEPT ![b] = refs(@, Len(tasks))]
               /\ crashed' = (bridge[b].m_webWorkerBase = NullPtr)
               /\ hist' = [hist EXCEPT
                             ![b].posted = @ + Len(tasks),
                             ![b].accesses = @ \cup {read},
                             ![b].posts =
                                 @ \cup {Posting(completionTarget, b)},
                             ![b].useAfterFree =
                                 @ \cup UseOf("postTaskForModeToWorkerContext")]
          ELSE /\ hist' = [hist EXCEPT ![b].accesses = @ \cup {read}]
               /\ UNCHANGED <<workerQueue, mainQueue, bridge, crashed>>
    /\ m' = [m EXCEPT !.pc = "signalUnlock"]
    /\ UNCHANGED <<deletion, frameLog,
                   commonClient, m_uniqueId, killed, mutex,
                   nbridges, w, appPosted>>

\* signalCompleted returns: the MutexLocker releases m_mutex, and the task
\* is over and gives up its reference to the bridge.
SignalUnlock ==
    /\ ~crashed
    /\ m.pc = "signalUnlock"
    /\ mutex' = [mutex EXCEPT ![m.task.bridge] = "free"]
    /\ bridge' = [bridge EXCEPT ![m.task.bridge] = deref(@)]
    /\ m' = MainIdle
    /\ UNCHANGED <<deletion, frameLog,
                   commonClient, m_uniqueId, killed, workerQueue, mainQueue,
                   nbridges, w, appPosted, crashed, hist>>

\* -------------------------------------------------------- the environment

\* The worker run loop is terminated: its message queue is killed.
Terminate ==
    /\ ~crashed
    /\ ~killed
    /\ killed' = TRUE
    /\ UNCHANGED <<deletion, frameLog,
                   commonClient, m_uniqueId, workerQueue, mainQueue, bridge,
                   mutex, nbridges, w, m, appPosted, crashed, hist>>

\* Somebody posts an unrelated task to the worker, in the default mode.
PostAppTask ==
    /\ ~crashed
    /\ appPosted < MaxAppTasks
    /\ appPosted' = appPosted + 1
    /\ workerQueue' = Append(workerQueue,
                             [kind |-> "app", bridge |-> 0, result |-> FALSE,
                              mode |-> defaultMode, id |-> appPosted + 1])
    /\ UNCHANGED <<deletion, frameLog,
                   commonClient, m_uniqueId, killed, mainQueue, bridge, mutex,
                   nbridges, w, m, crashed, hist>>

WorkerStep ==
    \/ \E name \in Names : StartCheck(name)
    \/ RunInModeTerminated
    \/ RunInModeReceived
    \/ CancelLock
    \/ CancelClear
    \/ ReturnFalse
    \/ ReturnResult
    \/ RunDefaultMode
    \/ WorkerStop

MainStep ==
    \/ MainTakeTask
    \/ MainDelete
    \/ AllowTaskAbsent
    \/ \E answer \in BOOLEAN : AllowTaskAsk(answer)
    \/ SignalLock
    \/ SignalPost
    \/ SignalUnlock

Next ==
    \/ WorkerStep
    \/ MainStep
    \/ Terminate
    \/ PostAppTask

Spec == Init /\ [][Next]_vars

\* ------------------------------------------- the main-thread (frame) path

databaseListing == "Database Listing"

\* framePermitted treating a missing permission client as a denial, as the
\* worker path does.
framePermitted_absentDenies(client, answer) == client /\ answer

\* open, deleteDatabase, getDatabaseNames: the operation goes on unless
\* (webView->permissionClient() && !permissionClient()->allowIndexedDB(...)).
framePermitted(client, answer) == ~(client /\ ~answer)

\* One call on the frame path: the name the permission client is asked
\* about (if it is asked), the calls of callbacks->onError, and the
\* operation forwarded to m_webIDBFactory.
frameCall(op, name, client, answer) ==
    [op |-> op, name |-> name, client |-> client, answer |-> answer,
     asked |-> IF client THEN << name >> ELSE <<>>,
     onError |-> IF framePermitted(client, answer) THEN 0 ELSE 1,
     forwarded |-> IF framePermitted(client, answer) THEN << op >> ELSE <<>>]

FrameUnchanged ==
    UNCHANGED <<commonClient, m_uniqueId, killed, workerQueue, mainQueue,
                bridge, mutex, nbridges, w, m, appPosted, crashed, deletion,
                hist>>

\* IDBFactoryBackendProxy::open on the main thread.
FrameOpen(name, client, answer) ==
    /\ Len(frameLog) < MaxFrameCalls
    /\ frameLog' = Append(frameLog, frameCall("open", name, client, answer))
    /\ FrameUnchanged

\* IDBFactoryBackendProxy::deleteDatabase on the main thread.
FrameDeleteDatabase(name, client, answer) ==
    /\ Len(frameLog) < MaxFrameCalls
    /\ frameLog' =
           Append(frameLog, frameCall("deleteDatabase", name, client, answer))
    /\ FrameUnchanged

\* IDBFactoryBackendProxy::getDatabaseNames on the main thread: the client
\* is asked about "Database Listing".
FrameGetDatabaseNames(client, answer) ==
    /\ Len(frameLog) < MaxFrameCalls
    /\ frameLog' =
           Append(frameLog,
                  frameCall("getDatabaseNames", databaseListing, client,
                            answer))
    /\ FrameUnchanged

FrameNext ==
    \E client, answer \in BOOLEAN :
        \/ \E name \in Names : FrameOpen(name, client, answer)
        \/ \E name \in Names : FrameDeleteDatabase(name, client, answer)
        \/ FrameGetDatabaseNames(client, answer)

\* The frame path on its own: it shares nothing with the worker path.
FrameSpec == Init /\ [][FrameNext]_vars

\* ---------------------------------------------------------------- fairness

\* The steps of one call of allowIDBFromWorkerThread after its dispatch.
WorkerCheckStep ==
    \/ RunInModeTerminated
    \/ RunInModeReceived
    \/ CancelLock
    \/ CancelClear
    \/ ReturnFalse
    \/ ReturnResult

\* The main thread's own steps: everything but the client's answer.
MainOwnStep ==
    \/ MainTakeTask
    \/ MainDelete
    \/ AllowTaskAbsent
    \/ SignalLock
    \/ SignalPost
    \/ SignalUnlock

\* The client's allowIndexedDB returns.
AuthorityAnswers == \E answer \in BOOLEAN : AllowTaskAsk(answer)

\* The behaviours the liveness specification looks at make at most
\* MaxLiveCalls calls; everything else is as in Next.
LiveStartCheck(name) == nbridges < MaxLiveCalls /\ StartCheck(name)

LiveNext ==
    \/ \E name \in Names : LiveStartCheck(name)
    \/ WorkerCheckStep
    \/ RunDefaultMode
    \/ WorkerStop
    \/ MainStep
    \/ Terminate
    \/ PostAppTask

\* Both threads are scheduled; whether the client ever answers is left open.
LiveSpec ==
    Init /\ [][LiveNext]_vars /\ WF_vars(WorkerCheckStep) /\ WF_vars(MainOwnStep)

\* ------------------------------------------------------------- the claims

Made == 1..nbridges
Allowed(b) == \E i \in 1..Len(hist[b].predCalls) : hist[b].predCalls[i].answer
Denied(b) == \E i \in 1..Len(hist[b].predCalls) : ~hist[b].predCalls[i].answer
InCheck(b) == w.bridge = b /\ w.pc # "idle"

\* C1 as stated: whenever the client answered allow while the run loop was
\* not yet terminated, the call returns true.
C1_AllowBeforeTeardownReturnsTrue ==
    \A b \in Made :
        (hist[b].returned /\ hist[b].allowedBeforeTeardown) => hist[b].ret

\* C1 amended: when the client answered allow and the call's completion task
\* ran inside its wait (runInMode returned MessageQueueMessageReceived), the
\* call returns true.
C1_AllowDeliveredReturnsTrue ==
    \A b \in Made :
        (/\ hist[b].returned
         /\ Allowed(b)
         /\ hist[b].waitResult = MessageQueueMessageReceived) => hist[b].ret

C1_Witness ==
    \E b \in Made :
        /\ hist[b].returned
        /\ Allowed(b)
        /\ hist[b].waitResult = MessageQueueMessageReceived
        /\ hist[b].ret

\* C2: a call returns true only if the client's predicate was invoked for it
\* with the call's name and answered true; it returns false when the client
\* denied, when there is no client and when the wait was terminated.
C2_TrueOnlyIfGranted ==
    \A b \in Made :
        hist[b].returned =>
            /\ hist[b].ret =>
                   hist[b].predCalls =
                       << [name |-> hist[b].name, answer |-> TRUE] >>
            /\ (\/ Denied(b)
                \/ ~hist[b].client
                \/ hist[b].waitResult = MessageQueueTerminated) => ~hist[b].ret

C2_Witness ==
    \E a, b \in Made :
        /\ hist[a].returned /\ hist[a].ret
        /\ hist[b].returned /\ ~hist[b].ret /\ Denied(b)
        /\ hist[b].waitResult = MessageQueueMessageReceived

\* C3: with no client the evaluation task never invokes the predicate, calls
\* signalCompleted with false, the call returns false, and nothing crashes.
C3_AbsentClientIsDenial ==
    \A b \in Made :
        ~hist[b].client =>
            /\ hist[b].predCalls = <<>>
            /\ \A i \in 1..Len(hist[b].signalArgs) : ~hist[b].signalArgs[i]
            /\ hist[b].returned => ~hist[b].ret
            /\ ~crashed

C3_Witness ==
    \E b \in Made :
        /\ ~hist[b].client
        /\ hist[b].signalArgs = << FALSE >>
        /\ hist[b].predCalls = <<>>
        /\ hist[b].waitResult = MessageQueueMessageReceived
        /\ hist[b].returned /\ ~hist[b].ret

\* C4 as stated: with no client nothing is dispatched to the main thread and
\* the call never enters the wait.
C4_AbsentClientNoDispatchNoWait ==
    \A b \in Made :
        ~hist[b].client =>
            /\ hist[b].dispatched = 0
            /\ ~(InCheck(b) /\ w.pc = "runInMode")
            /\ ~hist[b].waited

\* C4 amended: with no client the call still dispatches exactly one
\* evaluation task to the main thread and waits in runInMode before it
\* returns; it returns false.
C4_AbsentClientStillDispatches ==
    \A b \in Made :
        ~hist[b].client =>
            /\ hist[b].dispatched = 1
            /\ hist[b].returned => (hist[b].waited /\ ~hist[b].ret)

C4_Witness ==
    \E b \in Made :
        /\ ~hist[b].client
        /\ hist[b].dispatched = 1
        /\ hist[b].taskRuns = 1
        /\ hist[b].waited
        /\ hist[b].returned

\* C5: when runInMode returned MessageQueueTerminated the call calls cancel()
\* and returns false without reading result(), also when the client had
\* already answered allow.
C5_TerminatedCancelsAndDenies ==
    \A b \in Made :
        hist[b].waitResult = MessageQueueTerminated =>
            /\ ~hist[b].resultRead
            /\ hist[b].returned => (hist[b].cancelReturned /\ ~hist[b].ret)

C5_Witness ==
    \E b \in Made :
        /\ hist[b].waitResult = MessageQueueTerminated
        /\ hist[b].allowedBeforeTeardown
        /\ hist[b].posted = 1
        /\ hist[b].cancelReturned
        /\ hist[b].returned

\* C6: once cancel() has returned on a bridge, no step posts a completion
\* task for it, writes its result or dereferences its cleared back-reference.
C6_NothingAfterCancel ==
    [][\A b \in Calls :
          hist[b].cancelReturned =>
              /\ hist'[b].posted = hist[b].posted
              /\ hist'[b].writes = hist[b].writes
              /\ bridge'[b].m_result = bridge[b].m_result
              /\ ~crashed']_vars

C6_Witness ==
    \E b \in Made :
        /\ hist[b].lateSignal
        /\ m.pc = "signalUnlock"
        /\ m.task.bridge = b
        /\ hist[b].posted = 0

\* C7: every call returns: if the client answers, through the completion
\* task or the termination of the run loop; once the run loop is terminated,
\* whether the client answers or not.
C7_CheckReturns ==
    /\ WF_vars(AuthorityAnswers) =>
           \A b \in Calls : InCheck(b) ~> hist[b].returned
    /\ \A b \in Calls : (InCheck(b) /\ killed) ~> hist[b].returned

C7_Witness ==
    \E b \in Made :
        /\ hist[b].returned
        /\ hist[b].waitResult = MessageQueueTerminated
        /\ hist[b].taskRuns = 0

\* C8: the calls on one run loop have pairwise different modes, also with
\* the same name, and inside a call's wait only that call's own completion
\* task is ever performed.
C8_DistinctModesOwnWake ==
    /\ \A a, b \in Made : a # b => hist[a].mode # hist[b].mode
    /\ \A b \in Made : ~hist[b].foreignRun

C8_Witness ==
    \E a, b \in Made :
        /\ a # b
        /\ hist[a].name = hist[b].name
        /\ hist[a].ranInWait /\ hist[b].ranInWait
        /\ hist[a].returned /\ hist[b].returned

\* C9: a call dispatches exactly one evaluation task, which runs at most
\* once, invokes the predicate at most once and calls signalCompleted exactly
\* once; at most one completion task is posted.
C9_OneRoundTrip ==
    \A b \in Made :
        /\ hist[b].dispatched = 1
        /\ hist[b].taskRuns <= 1
        /\ Len(hist[b].predCalls) <= 1
        /\ Len(hist[b].signalArgs) <= hist[b].taskRuns
        /\ hist[b].posted <= 1
        /\ (/\ hist[b].taskRuns = 1
            /\ ~(m.pc = "allowIndexedDBTask" /\ m.task.bridge = b))
               => Len(hist[b].signalArgs) = 1

C9_Witness ==
    \E b \in Made :
        /\ hist[b].dispatched = 1
        /\ hist[b].taskRuns = 1
        /\ Len(hist[b].predCalls) = 1
        /\ Len(hist[b].signalArgs) = 1
        /\ hist[b].posted = 1
        /\ hist[b].returned
        /\ m.pc = "idle"

\* C10: a bridge's result is written at most once and only by didComplete,
\* and result() is read only after the call's completion task ran inside its
\* wait or after cancel(), never before the result was written.
C10_ResultWrittenOnceReadAfter ==
    \A b \in Made :
        /\ hist[b].writes <= 1
        /\ hist[b].writers \subseteq {"didComplete"}
        /\ hist[b].resultRead => (hist[b].ranInWait \/ hist[b].cancelReturned)
        /\ ~hist[b].readUnwritten

C10_Witness ==
    \E b \in Made :
        /\ hist[b].resultRead
        /\ hist[b].writes = 1
        /\ hist[b].ranInWait
        /\ ~hist[b].cancelCalled

C12_NoPostUnderMutex ==
    \A b \in Made : \A p \in hist[b].posts : ~p.locked

\* C12 amended: the constructor dispatches the evaluation task to the main
\* thread with the mutex free, and signalCompleted posts the completion task
\* to the worker's loop while it holds the mutex.
C12_OnlyCompletionPostedUnderMutex ==
    \A b \in Made : \A p \in hist[b].posts :
        /\ p.to = "main" => ~p.locked
        /\ p.to = "worker" => p.locked

C12_Witness ==
    \E b \in Made :
        /\ [to |-> "main", locked |-> FALSE] \in hist[b].posts
        /\ [to |-> "worker", locked |-> TRUE] \in hist[b].posts
        /\ m.pc = "signalUnlock" /\ m.task.bridge = b
        /\ mutex[b] = "main"

\* C13: no use of WebWorkerBase or WebCommonWorkerClient comes after their
\* deletion: the worker schedules the deletion only once its run loop has
\* stopped and the main thread runs its tasks in order, so allowIndexedDB and
\* the post through m_webWorkerBase always run before the deletion.
C13_NoUseAfterFree ==
    \A b \in Made : hist[b].useAfterFree = {}

C13_Witness ==
    \E b \in Made :
        /\ deletion = "done"
        /\ hist[b].askedWhileScheduled
        /\ hist[b].lateSignal
        /\ Len(hist[b].predCalls) = 1
        /\ hist[b].useAfterFree = {}

\* The tasks of a queue that were not posted for the given mode, in order.
Others(q, mode) == SelectSeq(q, LAMBDA t : t.mode # mode)

IsPrefix(s, t) == Len(s) <= Len(t) /\ SubSeq(t, 1, Len(s)) = s

Evaluated(b) ==
    /\ hist[b].taskRuns = 1
    /\ ~(m.pc = "allowIndexedDBTask" /\ m.task.bridge = b)

\* C15: cancel() does not stop the evaluation: an evaluation task that runs
\* with a client invokes the predicate, also after cancel() has returned, and
\* then only the posting of the completion task is left out.
C15_CancelOnlySuppressesDelivery ==
    \A b \in Made :
        /\ (hist[b].client /\ Evaluated(b)) => Len(hist[b].predCalls) = 1
        /\ hist[b].askedAfterCancel => hist[b].posted = 0

C15_Witness ==
    \E b \in Made :
        /\ hist[b].askedAfterCancel
        /\ Len(hist[b].predCalls) = 1
        /\ Len(hist[b].signalArgs) = 1
        /\ hist[b].posted = 0
        /\ hist[b].returned
        /\ m.pc = "idle"

\* The tasks of a queue that hold a reference to bridge b.
TasksOf(q, b) == Len(SelectSeq(q, LAMBDA t : t.bridge = b))

\* The holders of a reference to bridge b: the RefPtr in the frame of its
\* call, the evaluation task (queued or running) and the queued completion
\* tasks.
Holders(b) ==
    (IF w.bridge = b THEN 1 ELSE 0)
    + TasksOf(mainQueue, b)
    + (IF m.pc # "idle" /\ m.task.bridge = b THEN 1 ELSE 0)
    + TasksOf(workerQueue, b)

\* C16 as stated: besides being made once per call and counted correctly, no
\* bridge is still alive once its call has returned.
C16_NoBridgeOutlivesItsCall ==
    \A b \in Made :
        /\ bridge[b].m_refCount = Holders(b)
        /\ hist[b].returned => bridge[b].m_refCount = 0

\* C16 amended: every call has a bridge of its own, the reference count of a
\* bridge is the number of its holders, so the bridge is destroyed exactly
\* when the last of them lets go; that may be after its call has returned.
C16_BridgeLivesWhileHeld ==
    \A b \in Made :
        /\ bridge[b].m_refCount = Holders(b)
        /\ (w.bridge = b) => ~hist[b].returned
        /\ (bridge[b].m_refCount = 0) => hist[b].returned

C16_Witness ==
    \E b \in Made :
        /\ hist[b].returned
        /\ hist[b].askedAfterCancel
        /\ m.pc = "idle"
        /\ Holders(b) = 0
        /\ bridge[b].m_refCount = 0

\* C17: cancel() applied twice leaves a bridge as cancel() applied once does:
\* the back-reference is cleared, and the result and the reference count are
\* what they were.
C17_CancelIdempotent ==
    \A b \in Made :
        LET once == cancel(bridge[b])
        IN /\ cancel(once) = once
           /\ once.m_webWorkerBase = NullPtr
           /\ once.m_result = bridge[b].m_result
           /\ once.m_refCount = bridge[b].m_refCount

C17_Witness ==
    \E b, c \in Made :
        /\ hist[b].cancelReturned
        /\ bridge[b].m_webWorkerBase = NullPtr
        /\ cancel(bridge[b]) = bridge[b]
        /\ bridge[c].m_result
        /\ bridge[c].m_webWorkerBase # NullPtr
        /\ cancel(bridge[c]).m_result

\* C18: openFromWorker reports the denial exactly once and opens nothing when
\* the check returned false, and opens the database without an error when it
\* returned true; it does nothing before the check has returned.
C18_OpenOrErrorNeverBoth ==
    \A b \in Made :
        /\ ~hist[b].returned => (hist[b].onError = 0 /\ hist[b].open = 0)
        /\ (hist[b].returned /\ hist[b].ret) =>
               (hist[b].open = 1 /\ hist[b].onError = 0)
        /\ (hist[b].returned /\ ~hist[b].ret) =>
               (hist[b].onError = 1 /\ hist[b].open = 0)

C18_Witness ==
    \E a, b \in Made :
        /\ hist[a].returned /\ hist[a].ret /\ hist[a].open = 1
        /\ hist[b].returned /\ ~hist[b].ret /\ hist[b].onError = 1
        /\ hist[b].waitResult = MessageQueueTerminated

C20_FrameAbsentClientGrants ==
    \A i \in 1..Len(frameLog) :
        LET r == frameLog[i]
        IN /\ ~r.client =>
                  /\ r.asked = <<>>
                  /\ r.forwarded = << r.op >> /\ r.onError = 0
                  /\ absentOutcome = FALSE
           /\ (r.client /\ r.answer) =>
                  (r.forwarded = << r.op >> /\ r.onError = 0)
           /\ (r.client /\ ~r.answer) =>
                  (r.forwarded = <<>> /\ r.onError = 1)
           /\ r.client =>
                  r.asked = << IF r.op = "getDatabaseNames"
                               THEN databaseListing ELSE r.name >>

C20_Witness ==
    \E i, j \in 1..Len(frameLog) :
        /\ ~frameLog[i].client /\ frameLog[i].forwarded = << frameLog[i].op >>
        /\ frameLog[j].client /\ ~frameLog[j].answer
        /\ frameLog[j].onError = 1 /\ frameLog[j].forwarded = <<>>

====
